---- MODULE Spec2Model ----
(***************************************************************************)
(* Job state machine and checkpointed pipeline orchestrator of the SEO     *)
(* article generator: app/models/job.py, app/persistence/job_store.py and  *)
(* app/pipeline/orchestrator.py.                                           *)
(*                                                                         *)
(* A job record lives in two places: the file of the job store (store,     *)
(* holding the JSON text save wrote and get parses) and the in-memory Job  *)
(* object an orchestration call works on (task.job). Spec takes save as    *)
(* one step that either replaces the record or raises; SpecStore takes it  *)
(* one file-system call at a time, for concurrent callers.                 *)
(* run() is split at its suspension points: the awaited step handler is    *)
(* one state (pc = "in_handler"), everything synchronous around it (the    *)
(* artifact assignment, mark_step, save, the except block) belongs to the  *)
(* action that leaves that state.                                          *)
(***************************************************************************)
EXTENDS Integers, Sequences, FiniteSets, TLC

VARIABLES
    store,  \* job_id -> text of the job's record file <job_id>.json
    task,   \* task id -> state of one orchestrator call (run / resume)
    now,    \* the wall clock read by datetime.utcnow()
    temps,  \* temp file name -> the temp files present in the jobs directory
    saver,  \* saver id -> state of one JobStore.save call, step by step
    committed,  \* job_id -> the job of the last save whose rename happened
    reply,      \* what the last call on the job store returned
    seo,        \* state of one SEOValidationStep.execute call
    pcall,      \* state of one provider call (SerperProvider.search,
                \* GroqProvider.generate) under its retry decorator
    running_tasks,  \* routes._running_tasks: job_id -> background task
    requests        \* create and resume requests the HTTP surface has served

savevars == <<temps, saver, committed>>
vars == <<store, task, now, temps, saver, committed, reply, seo, pcall,
          running_tasks, requests>>

----------------------------------------------------------------------------
(* Bounds *)

MaxClock == 1            \* clock values 0..MaxClock
MaxRetries == 2          \* resume is explored while retry_count < MaxRetries
MaxArtifactValue == 2    \* distinct non-empty values a step handler returns

JobIds == {"j1"}
Tasks == {"t1"}
HttpTasks == {"t1", "t2"}   \* background tasks of the HTTP surface

MaxTemps == 2            \* random suffixes mkstemp can draw for one job
MaxSaved == 1            \* saved jobs carry retry_count 0..MaxSaved
MaxRequests == 2         \* create and resume requests served by the HTTP surface
DefaultLimit == 1        \* list_jobs' default limit (100 in the program),
                         \* scaled to the number of job ids
StoreIds == {"j1", "j2"} \* job ids of the step-by-step saves
Savers == {"s1", "s2"}   \* concurrent callers of save

----------------------------------------------------------------------------
(* app/models/job.py *)

None == -1               \* Python None, for timestamps and artifacts
EmptyStr == 0            \* the empty string "" (a possible draft text)

JobStatus == {"pending", "running", "completed", "failed"}

PipelineStep == {"created", "serp_analysis", "theme_extraction",
                 "outline_generation", "article_generation",
                 "seo_validation", "completed"}

ArtifactFields == {"serp_data", "theme_analysis", "outline",
                   "draft_article", "final_article"}

\* JobArtifacts(): every field defaults to None
JobArtifacts == [f \in ArtifactFields |-> None]

\* error: JobError | None = None
NoError == [step |-> "none", message |-> "none", timestamp |-> None]

JobError(step, message) ==
    [step |-> step, message |-> message, timestamp |-> now]

\* Job(job_id, input, status=PENDING, current_step=CREATED)
Job == [status       |-> "pending",
        current_step |-> "created",
        created_at   |-> now,
        updated_at   |-> now,
        completed_at |-> None,
        artifacts    |-> JobArtifacts,
        error        |-> NoError,
        retry_count  |-> 0]

\* mutants of mark_step: the step marker is not advanced; completed_at is
\* not stamped
mark_step_keeps_step(job, step) ==
    IF step = "completed"
    THEN [job EXCEPT !.updated_at = now,
                     !.status = "completed", !.completed_at = now]
    ELSE [job EXCEPT !.updated_at = now]

mark_step_no_completed_at(job, step) ==
    IF step = "completed"
    THEN [job EXCEPT !.current_step = step, !.updated_at = now,
                     !.status = "completed"]
    ELSE [job EXCEPT !.current_step = step, !.updated_at = now]

mark_step(job, step) ==
    IF step = "completed"
    THEN [job EXCEPT !.current_step = step, !.updated_at = now,
                     !.status = "completed", !.completed_at = now]
    ELSE [job EXCEPT !.current_step = step, !.updated_at = now]

\* mutant of mark_failed: no error record is attached
mark_failed_no_error(job, step, message) ==
    [job EXCEPT !.status = "failed", !.updated_at = now]

\* mutant of mark_failed: the status is left as it was
mark_failed_keeps_status(job, step, message) ==
    [job EXCEPT !.error = JobError(step, message),
                !.updated_at = now]

mark_failed(job, step, message) ==
    [job EXCEPT !.status = "failed",
                !.error = JobError(step, message),
                !.updated_at = now]

\* mutant of mark_running: the status is left as it was
mark_running_keeps_status(job) == [job EXCEPT !.updated_at = now]

mark_running(job) ==
    [job EXCEPT !.status = "running", !.updated_at = now]

----------------------------------------------------------------------------
(* app/pipeline/orchestrator.py: step order and dispatch *)

STEP_ORDER == <<"created", "serp_analysis", "theme_extraction",
                "outline_generation", "article_generation",
                "seo_validation", "completed">>

\* STEP_ORDER.index(step), 1-based
StepIndex(step) == CHOOSE i \in 1..Len(STEP_ORDER) : STEP_ORDER[i] = step

\* the artifact field _execute_step assigns for a step
ArtifactField(step) ==
    CASE step = "serp_analysis"      -> "serp_data"
      [] step = "theme_extraction"   -> "theme_analysis"
      [] step = "outline_generation" -> "outline"
      [] step = "article_generation" -> "draft_article"
      [] step = "seo_validation"     -> "final_article"

\* Python truthiness of an artifact: None and "" are falsy, model objects
\* (no __bool__ / __len__) are always truthy
Truthy(v) == v # None /\ v # EmptyStr

\* the "if not job.artifacts.X: raise ValueError" checks of _execute_step
PreconditionHolds(job, step) ==
    CASE step = "serp_analysis"      -> TRUE
      [] step = "theme_extraction"   -> Truthy(job.artifacts.serp_data)
      [] step = "outline_generation" -> Truthy(job.artifacts.theme_analysis)
      [] step = "article_generation" -> Truthy(job.artifacts.outline)
      [] step = "seo_validation"     -> /\ Truthy(job.artifacts.draft_article)
                                        /\ Truthy(job.artifacts.outline)
      [] step = "completed"          -> TRUE

\* what a step's execute() can return: a model object, or for the draft any
\* string the text-generation provider returns, the empty one included.
\* Values are opaque tokens nothing compares across fields, so the first
\* value produced for a field is called 1; a handler run again over a value
\* the job already holds may return the same or any other one.
HandlerValues(job, step) ==
    LET tokens == IF job.artifacts[ArtifactField(step)] = None
                  THEN {1} ELSE 1..MaxArtifactValue
    IN IF step = "article_generation" THEN {EmptyStr} \cup tokens ELSE tokens

\* mutant of StartIndex: every run starts over from "created"
StartIndex_from_created(job) == 1

\* start_index = self.STEP_ORDER.index(job.current_step)
StartIndex(job) == StepIndex(job.current_step)

----------------------------------------------------------------------------
(* app/persistence/job_store.py *)

\* save(): job.updated_at = datetime.utcnow() before the write
Stamp(job) == [job EXCEPT !.updated_at = now]

\* JSON values of the record file
JNull == [type |-> "null"]
JString(s) == [type |-> "string", v |-> s]
JNumber(n) == [type |-> "number", v |-> n]
JValue(v) == [type |-> "object", v |-> v]

\* the closing brace of the document: a text without it does not parse
CloseBrace == <<"}", JNull>>

\* mutant of isoformat: the timestamp is written without its time of day
isoformat_date_only(t) == "1970-01-01"

\* datetime -> ISO 8601 text, as model_dump_json writes it
isoformat(t) == "1970-01-01T00:00:0" \o ToString(t)

\* ISO 8601 text -> datetime, as model_validate reads it
fromisoformat(s) == CHOOSE t \in 0..(MaxClock + 1) : isoformat(t) = s

dump_datetime(t) == IF t = None THEN JNull ELSE JString(isoformat(t))
load_datetime(j) == IF j.type = "null" THEN None ELSE fromisoformat(j.v)

dump_artifact(v) == IF v = None THEN JNull ELSE JValue(v)
load_artifact(j) == IF j.type = "null" THEN None ELSE j.v

dump_error(e) ==
    IF e = NoError THEN JNull
    ELSE [type      |-> "object",
          step      |-> JString(e.step),
          message   |-> JString(e.message),
          timestamp |-> dump_datetime(e.timestamp)]

load_error(j) ==
    IF j.type = "null" THEN NoError
    ELSE [step      |-> j.step.v,
          message   |-> j.message.v,
          timestamp |-> load_datetime(j.timestamp)]

\* job.model_dump_json(): the text of the record, member by member in field
\* order; enum members are written as their string values
model_dump_json(job) ==
    << <<"status", JString(job.status)>>,
       <<"current_step", JString(job.current_step)>>,
       <<"created_at", dump_datetime(job.created_at)>>,
       <<"updated_at", dump_datetime(job.updated_at)>>,
       <<"completed_at", dump_datetime(job.completed_at)>>,
       <<"artifacts",
         [f \in ArtifactFields |-> dump_artifact(job.artifacts[f])]>>,
       <<"error", dump_error(job.error)>>,
       <<"retry_count", JNumber(job.retry_count)>>,
       CloseBrace >>

\* json.load(f) succeeds on a complete document only
ParseOk(text) == Len(text) > 0 /\ text[Len(text)] = CloseBrace

\* json.load(f): the members of the document by key (model_dump_json writes
\* them in field order)
json_load(text) ==
    [status       |-> text[1][2],
     current_step |-> text[2][2],
     created_at   |-> text[3][2],
     updated_at   |-> text[4][2],
     completed_at |-> text[5][2],
     artifacts    |-> text[6][2],
     error        |-> text[7][2],
     retry_count  |-> text[8][2]]

\* the field names Job.model_validate requires (no default)
JobFields == {"status", "current_step", "created_at", "updated_at",
              "completed_at", "artifacts", "error", "retry_count"}

\* Job.model_validate(data) accepts the document
ValidJob(data) ==
    /\ DOMAIN data = JobFields
    /\ data.status.type = "string" /\ data.status.v \in JobStatus
    /\ data.current_step.type = "string"
    /\ data.current_step.v \in PipelineStep
    /\ data.created_at.type = "string"
    /\ data.updated_at.type = "string"
    /\ data.retry_count.type = "number"

\* Job.model_validate(data)
model_validate(data) ==
    [status       |-> data.status.v,
     current_step |-> data.current_step.v,
     created_at   |-> load_datetime(data.created_at),
     updated_at   |-> load_datetime(data.updated_at),
     completed_at |-> load_datetime(data.completed_at),
     artifacts    |-> [f \in ArtifactFields |->
                          load_artifact(data.artifacts[f])],
     error        |-> load_error(data.error),
     retry_count  |-> data.retry_count.v]

\* what get() returns for an absent or unreadable record (Python None)
NullJob == [status       |-> "none",
            current_step |-> "none",
            created_at   |-> None,
            updated_at   |-> None,
            completed_at |-> None,
            artifacts    |-> JobArtifacts,
            error        |-> NoError,
            retry_count  |-> 0]

\* os.rename(temp_path, job_path): job_id's file now holds text
PutText(job_id, text) ==
    [k \in DOMAIN store \cup {job_id} |->
        IF k = job_id THEN text ELSE store[k]]

\* the store after a save of job that returned
Put(job_id, job) == PutText(job_id, model_dump_json(job))

exists(job_id) == job_id \in DOMAIN store

\* mutant of get: a record that does not parse is answered with a new Job
get_default_on_error(job_id) ==
    IF ~exists(job_id) THEN NullJob
    ELSE IF ~ParseOk(store[job_id]) THEN Job
    ELSE LET data == json_load(store[job_id])
         IN IF ValidJob(data) THEN model_validate(data) ELSE Job

\* get(job_id): None when the file is absent, json.load or model_validate
\* raises; the Job otherwise
get(job_id) ==
    IF ~exists(job_id) THEN NullJob
    ELSE IF ~ParseOk(store[job_id]) THEN NullJob
    ELSE LET data == json_load(store[job_id])
         IN IF ValidJob(data) THEN model_validate(data) ELSE NullJob

----------------------------------------------------------------------------
(* app/pipeline/steps/seo_validation.py *)

MAX_REVISIONS == 2

\* the checks of _validate_article, in the order it appends them
CheckNames == <<"word_count", "single_h1", "h2_count", "h3_count",
                "keyword_in_title", "keyword_in_intro", "keyword_density">>

\* an article, as far as validation reads it: for each check, whether its
\* condition holds (word count within the tolerance, exactly one H1, enough
\* H2 and H3 headings, topic in the title and in the first 100 words,
\* keyword density within the maximum)
Articles == [{CheckNames[i] : i \in 1..Len(CheckNames)} -> BOOLEAN]

\* the severity each check is given when it fails
Severity(name) ==
    CASE name = "word_count"       -> "warning"
      [] name = "single_h1"        -> "error"
      [] name = "h2_count"         -> "warning"
      [] name = "h3_count"         -> "info"
      [] name = "keyword_in_title" -> "error"
      [] name = "keyword_in_intro" -> "warning"
      [] name = "keyword_density"  -> "warning"

\* SEOValidationCheck(name, passed, message, severity="warning"): a passed
\* check is built without a severity and keeps the default
SEOValidationCheck(name, passed) ==
    [name |-> name, passed |-> passed,
     severity |-> IF passed THEN "warning" ELSE Severity(name)]

\* the failing checks that append an issue (h3_count appends none)
Issues(checks) ==
    SelectSeq([i \in 1..Len(checks) |-> checks[i].name],
              LAMBDA name : \E i \in 1..Len(checks) :
                  /\ checks[i].name = name
                  /\ ~checks[i].passed
                  /\ name # "h3_count")

\* a score is the exact quotient num / den of the float the code computes
Quotient(num, den) == [num |-> num, den |-> den]
AtLeast(q, k) == q.num >= k * q.den

\* SEOValidationResult(): passed False, score 0.0, no checks, no issues
SEOValidationResult ==
    [passed |-> FALSE, score |-> Quotient(0, 1), checks |-> <<>>,
     issues |-> <<>>]

\* mutant of validate_article: a failed check of severity error does not
\* stop the article from passing
validate_article_ignores_errors(article) ==
    LET checks == [i \in 1..Len(CheckNames) |->
                      SEOValidationCheck(CheckNames[i], article[CheckNames[i]])]
        passed_count == Cardinality({i \in 1..Len(checks) : checks[i].passed})
        score == IF Len(checks) > 0
                 THEN Quotient(passed_count * 100, Len(checks))
                 ELSE Quotient(0, 1)
    IN [passed |-> AtLeast(score, 70), score |-> score,
        checks |-> checks, issues |-> Issues(checks)]

\* _validate_article(article, topic, target_word_count)
validate_article(article) ==
    LET checks == [i \in 1..Len(CheckNames) |->
                      SEOValidationCheck(CheckNames[i], article[CheckNames[i]])]
        passed_count == Cardinality({i \in 1..Len(checks) : checks[i].passed})
        score == IF Len(checks) > 0
                 THEN Quotient(passed_count * 100, Len(checks))
                 ELSE Quotient(0, 1)
        has_errors == \E i \in 1..Len(checks) :
                         ~checks[i].passed /\ checks[i].severity = "error"
    IN [passed |-> ~has_errors /\ AtLeast(score, 70), score |-> score,
        checks |-> checks, issues |-> Issues(checks)]

\* the provider calls of execute after the final validation, in order
PackagingCalls == <<"_extract_metadata", "_suggest_internal_links",
                    "_suggest_external_refs">>

\* no execute call yet
NoArticle == <<>>
IdleSeo == [pc             |-> "idle",
            article        |-> NoArticle,
            revision_count |-> 0,
            validation     |-> SEOValidationResult,
            validated      |-> NoArticle,  \* the article validation is about
            revisions      |-> 0,          \* _revise_article calls made
            awaiting       |-> 0,          \* index into PackagingCalls
            result         |-> NoArticle]  \* the GeneratedArticle returned

----------------------------------------------------------------------------
(* app/providers/serp/serper.py, app/providers/llm/groq.py: the retry
   decorator around search and generate *)

\* @retry(stop=stop_after_attempt(3), ...), the same on both providers
stop_after_attempt == 3

Providers == {"serper", "groq"}

\* the errors one attempt can raise, with the retryable tag the provider
\* gives them. generate wraps every exception of its body, its own "Empty
\* response" error included, into one of three LLMProviderErrors
ProviderErrors(provider) ==
    IF provider = "serper"
    THEN {[message |-> "Invalid API key",     retryable |-> FALSE],
          [message |-> "Rate limit exceeded", retryable |-> TRUE],
          [message |-> "API error 4xx",       retryable |-> FALSE],
          [message |-> "API error 5xx",       retryable |-> TRUE],
          [message |-> "Request timed out",   retryable |-> TRUE],
          [message |-> "Request failed",      retryable |-> TRUE]}
    ELSE {[message |-> "Rate limit exceeded", retryable |-> TRUE],
          [message |-> "Invalid API key",     retryable |-> FALSE],
          [message |-> "Generation failed",   retryable |-> TRUE]}

\* the decorator names no retry= condition: the library's default retries
\* on every exception, whatever it carries
retry_if_exception_type(error) == TRUE

\* mutant of should_stop: one more attempt is let through
should_stop_after_four(attempt_number) == attempt_number > stop_after_attempt

\* stop=stop_after_attempt(3)
should_stop(attempt_number) == attempt_number >= stop_after_attempt

NoProviderError == [message |-> "none", retryable |-> TRUE]

\* no provider call yet
IdleCall == [pc             |-> "idle",
             provider       |-> "none",
             attempt_number |-> 0,
             failed         |-> <<>>,   \* the errors of the failed attempts
             error          |-> NoProviderError]  \* raised to the step

----------------------------------------------------------------------------
(* Orchestrator calls *)

\* a task slot with no call: nothing in flight, nothing returned
IdleTask == [pc        |-> "idle",
             op        |-> "none",     \* "run" or "resume"
             job_id    |-> "none",
             job       |-> NullJob,    \* the in-memory Job of the call
             start     |-> NullJob,    \* the job as the call received it
             i         |-> 0,          \* loop variable of run
             next_step |-> "none",
             exc       |-> "none",     \* exception raised to the caller
             failed_at |-> "none",     \* step whose _execute_step raised
             fail_saved |-> FALSE,     \* the except block's save succeeded
             invoked   |-> <<>>,       \* handlers invoked by this call
             observed  |-> <<>>,       \* current_step at each on_progress(job)
             nsaves    |-> 0]          \* successful saves of this call

Finished == {"idle", "returned", "raised"}
InFlight == {"loop", "in_handler"}

\* no orchestration of job_id is in flight (one orchestration per job)
NoActive(job_id) ==
    \A t \in Tasks : task[t].job_id = job_id => task[t].pc \in Finished

\* no call on the job store has returned yet
NoReply == [op |-> "none", job_id |-> "none", status |-> "none",
            limit |-> 0, job |-> NullJob, jobs |-> <<>>,
            fresh |-> TRUE,     \* create: the id drawn was not in the store
            result |-> FALSE]   \* delete: the value returned

\* a saver with no save call in progress
NoTemp == <<"none", 0>>
IdleSaver == [pc |-> "idle", job_id |-> "none", job |-> NullJob,
              temp |-> NoTemp]

Init ==
    /\ store = <<>>
    /\ task = [t \in HttpTasks |-> IdleTask]
    /\ now = 0
    /\ temps = <<>>
    /\ saver = [s \in Savers |-> IdleSaver]
    /\ committed = <<>>
    /\ reply = NoReply
    /\ seo = IdleSeo
    /\ pcall = IdleCall
    /\ running_tasks = <<>>
    /\ requests = 0

\* the clock advances on its own
Tick ==
    /\ now < MaxClock
    /\ now' = now + 1
    /\ UNCHANGED <<store, task, savevars, reply, seo, pcall, running_tasks, requests>>

\* JobStore.create: fresh identifier, Job at pending/created, saved
Create(job_id) ==
    /\ ~exists(job_id)
    /\ \E ok \in BOOLEAN :
         store' = IF ok THEN Put(job_id, Stamp(Job)) ELSE store
    /\ UNCHANGED <<task, now, savevars, reply, seo, pcall, running_tasks, requests>>

\* on_progress(job): the observer run() is given records the step it is
\* shown (progress_updates.append(job.current_step)) and returns
on_progress(updates, job) == Append(updates, job.current_step)

\* the head of run(): mark_running, save (outside the try block), then the
\* first on_progress(job)
EnterRun(t, job_id, job, op, start) ==
    LET running == Stamp(mark_running(job))
        call == [IdleTask EXCEPT !.op = op, !.job_id = job_id,
                                 !.job = running, !.start = start]
    IN \E ok \in BOOLEAN :
         IF ok
         THEN /\ store' = Put(job_id, running)
              /\ task' = [task EXCEPT ![t] =
                    [call EXCEPT !.pc = "loop", !.i = StartIndex(running),
                                 !.observed = on_progress(@, running),
                                 !.nsaves = 1]]
         ELSE /\ store' = store
              /\ task' = [task EXCEPT ![t] =
                    [call EXCEPT !.pc = "raised", !.exc = "OSError"]]

\* orchestrator.run(job) on the job loaded from the store
Run(t, job_id) ==
    /\ task[t].pc \in Finished
    /\ NoActive(job_id)
    /\ LET job == get(job_id)
       IN /\ job # NullJob
          /\ EnterRun(t, job_id, job, "run", job)
    /\ UNCHANGED <<now, savevars, reply, seo, pcall, running_tasks, requests>>

\* the except block of run(): mark_failed(step=job.current_step), save,
\* on_progress(job), raise
Fail(t, job, exc, failed_at) ==
    LET failed == Stamp(mark_failed(job, job.current_step, exc))
    IN \E ok \in BOOLEAN :
         IF ok
         THEN /\ store' = Put(task[t].job_id, failed)
              /\ task' = [task EXCEPT ![t].pc = "raised", ![t].job = failed,
                                      ![t].exc = exc,
                                      ![t].failed_at = failed_at,
                                      ![t].fail_saved = TRUE,
                                      ![t].observed = on_progress(@, failed),
                                      ![t].nsaves = @ + 1]
         ELSE /\ store' = store
              /\ task' = [task EXCEPT ![t].pc = "raised", ![t].job = failed,
                                      ![t].exc = "OSError",
                                      ![t].failed_at = failed_at,
                                      ![t].fail_saved = FALSE]

\* mutant of Checkpoint: the observer is called before the checkpoint
Checkpoint_notify_first(t, job, step) ==
    LET marked == Stamp(mark_step(job, step))
    IN \/ /\ store' = Put(task[t].job_id, marked)
          /\ task' = [task EXCEPT
                ![t].pc = IF step = "completed" THEN "returned" ELSE "loop",
                ![t].job = marked,
                ![t].i = @ + 1,
                ![t].observed = on_progress(@, job),
                ![t].nsaves = @ + 1]
       \/ Fail(t, marked, "OSError", "none")

\* _checkpoint(job, step): mark_step, save, then on_progress(job); the loop
\* goes on, or breaks after "completed"; a save that raises lands in the
\* except block
Checkpoint(t, job, step) ==
    LET marked == Stamp(mark_step(job, step))
    IN \/ /\ store' = Put(task[t].job_id, marked)
          /\ task' = [task EXCEPT
                ![t].pc = IF step = "completed" THEN "returned" ELSE "loop",
                ![t].job = marked,
                ![t].i = @ + 1,
                ![t].observed = on_progress(@, marked),
                ![t].nsaves = @ + 1]
       \/ Fail(t, marked, "OSError", "none")

\* for i in range(start_index, len(STEP_ORDER) - 1): the next step to execute
NextStep(t) == STEP_ORDER[task[t].i + 1]

\* the loop is exhausted without a break: return job
ReturnFromRun(t) ==
    /\ task[t].pc = "loop"
    /\ task[t].i >= Len(STEP_ORDER)
    /\ task' = [task EXCEPT ![t].pc = "returned"]
    /\ UNCHANGED <<store, now, savevars, reply, seo, pcall, running_tasks, requests>>

\* _execute_step(job, next_step): the upstream artifact is there and the
\* step's execute() is awaited
BeginStep(t) ==
    /\ task[t].pc = "loop"
    /\ task[t].i < Len(STEP_ORDER)
    /\ NextStep(t) # "completed"
    /\ PreconditionHolds(task[t].job, NextStep(t))
    /\ task' = [task EXCEPT ![t].pc = "in_handler",
                            ![t].next_step = NextStep(t),
                            ![t].invoked = Append(@, NextStep(t))]
    /\ UNCHANGED <<store, now, savevars, reply, seo, pcall, running_tasks, requests>>

\* _execute_step(job, next_step) raises ValueError: upstream artifact missing
PreconditionFails(t) ==
    /\ task[t].pc = "loop"
    /\ task[t].i < Len(STEP_ORDER)
    /\ ~PreconditionHolds(task[t].job, NextStep(t))
    /\ Fail(t, task[t].job, "ValueError", NextStep(t))
    /\ UNCHANGED <<now, savevars, reply, seo, pcall, running_tasks, requests>>

\* _execute_step(job, COMPLETED) sets the status, then the last checkpoint
CompleteStep(t) ==
    /\ task[t].pc = "loop"
    /\ task[t].i < Len(STEP_ORDER)
    /\ NextStep(t) = "completed"
    /\ Checkpoint(t, [task[t].job EXCEPT !.status = "completed"], "completed")
    /\ UNCHANGED <<now, savevars, reply, seo, pcall, running_tasks, requests>>

\* the handler returns: the artifact is assigned and the step checkpointed
HandlerReturns(t) ==
    /\ task[t].pc = "in_handler"
    /\ \E v \in HandlerValues(task[t].job, task[t].next_step) :
         Checkpoint(t,
            [task[t].job EXCEPT
                !.artifacts[ArtifactField(task[t].next_step)] = v],
            task[t].next_step)
    /\ UNCHANGED <<now, savevars, reply, seo, pcall, running_tasks, requests>>

\* mutant of HandlerRaises: the error is swallowed and the loop tries the
\* same step again
HandlerRaises_retry(t) ==
    /\ task[t].pc = "in_handler"
    /\ Len(task[t].invoked) < Len(STEP_ORDER)
    /\ task' = [task EXCEPT ![t].pc = "loop"]
    /\ UNCHANGED <<store, now, savevars, reply, seo, pcall, running_tasks, requests>>

\* the handler raises a provider error
HandlerRaises(t) ==
    /\ task[t].pc = "in_handler"
    /\ Fail(t, task[t].job, "ProviderError", task[t].next_step)
    /\ UNCHANGED <<now, savevars, reply, seo, pcall, running_tasks, requests>>

\* mutant of AlreadyCompleted: no early return for a completed job
AlreadyCompleted_never(job) == FALSE

\* resume(): if job.status == JobStatus.COMPLETED
AlreadyCompleted(job) == job.status = "completed"

\* mutant of Resumable: a job never started is accepted, one that shows
\* running is not
Resumable_pending(job) == job.status \in {"failed", "pending"}

\* resume(): job.status in [JobStatus.FAILED, JobStatus.RUNNING]
Resumable(job) == job.status \in {"failed", "running"}

\* resume(job_id): the job is not in the store
ResumeNotFound(t, job_id) ==
    /\ task[t].pc \in Finished
    /\ NoActive(job_id)
    /\ get(job_id) = NullJob
    /\ task' = [task EXCEPT ![t] =
          [IdleTask EXCEPT !.pc = "raised", !.op = "resume",
                           !.job_id = job_id, !.exc = "not found"]]
    /\ UNCHANGED <<store, now, savevars, reply, seo, pcall, running_tasks, requests>>

\* resume(job_id): already completed, the loaded job is returned
ResumeCompleted(t, job_id) ==
    /\ task[t].pc \in Finished
    /\ NoActive(job_id)
    /\ LET job == get(job_id)
       IN /\ job # NullJob
          /\ AlreadyCompleted(job)
          /\ task' = [task EXCEPT ![t] =
                [IdleTask EXCEPT !.pc = "returned", !.op = "resume",
                                 !.job_id = job_id, !.job = job,
                                 !.start = job]]
    /\ UNCHANGED <<store, now, savevars, reply, seo, pcall, running_tasks, requests>>

\* resume(job_id): status is neither failed nor running
ResumeInvalidState(t, job_id) ==
    /\ task[t].pc \in Finished
    /\ NoActive(job_id)
    /\ LET job == get(job_id)
       IN /\ job # NullJob
          /\ ~AlreadyCompleted(job)
          /\ ~Resumable(job)
          /\ task' = [task EXCEPT ![t] =
                [IdleTask EXCEPT !.pc = "raised", !.op = "resume",
                                 !.job_id = job_id, !.job = job,
                                 !.start = job,
                                 !.exc = "cannot be resumed"]]
    /\ UNCHANGED <<store, now, savevars, reply, seo, pcall, running_tasks, requests>>

\* mutant of ResetForResume: retry_count is not incremented
ResetForResume_no_increment(job) == [job EXCEPT !.error = NoError]

\* the job resume() hands to run(): error reset, retry_count incremented
ResetForResume(job) ==
    [job EXCEPT !.error = NoError, !.retry_count = @ + 1]

\* resume(job_id): failed or running, the pipeline is run again
ResumeRun(t, job_id) ==
    /\ task[t].pc \in Finished
    /\ NoActive(job_id)
    /\ LET job == get(job_id)
       IN /\ job # NullJob
          /\ ~AlreadyCompleted(job)
          /\ Resumable(job)
          /\ job.retry_count < MaxRetries
          /\ EnterRun(t, job_id, ResetForResume(job), "resume", job)
    /\ UNCHANGED <<now, savevars, reply, seo, pcall, running_tasks, requests>>

\* the process dies while a call is in flight: its in-memory job is lost,
\* the store keeps the last committed record
Crash(t) ==
    /\ task[t].pc \in InFlight
    /\ task' = [task EXCEPT ![t] = IdleTask]
    /\ UNCHANGED <<store, now, savevars, reply, seo, pcall, running_tasks, requests>>

Next ==
    \/ Tick
    \/ \E job_id \in JobIds : Create(job_id)
    \/ \E t \in Tasks, job_id \in JobIds : Run(t, job_id)
    \/ \E t \in Tasks, job_id \in JobIds : ResumeNotFound(t, job_id)
    \/ \E t \in Tasks, job_id \in JobIds : ResumeCompleted(t, job_id)
    \/ \E t \in Tasks, job_id \in JobIds : ResumeInvalidState(t, job_id)
    \/ \E t \in Tasks, job_id \in JobIds : ResumeRun(t, job_id)
    \/ \E t \in Tasks : ReturnFromRun(t)
    \/ \E t \in Tasks : BeginStep(t)
    \/ \E t \in Tasks : PreconditionFails(t)
    \/ \E t \in Tasks : CompleteStep(t)
    \/ \E t \in Tasks : HandlerReturns(t)
    \/ \E t \in Tasks : HandlerRaises(t)
    \/ \E t \in Tasks : Crash(t)

Spec == Init /\ [][Next]_vars

----------------------------------------------------------------------------
(* app/persistence/job_store.py: save(), one file-system call at a time *)

\* the jobs callers hand to save (retry_count tells them apart)
SavedJobs == {[Job EXCEPT !.retry_count = r] : r \in 0..MaxSaved}

\* mutant of mkstemp: one fixed temp name, opened whether it exists or not
mkstemp_fixed_name(job_id) == {<<"shared", 1>>}

\* tempfile.mkstemp(dir, prefix=".{job_id}_", suffix=".tmp"): a name that does
\* not exist yet, created exclusively
mkstemp(job_id) == {<<job_id, n>> : n \in 1..MaxTemps} \ DOMAIN temps

\* the directory's temp files after name is created empty by saver s
CreateTemp(name, s) ==
    [n \in DOMAIN temps \cup {name} |->
        IF n = name THEN [owner |-> s, text |-> <<>>] ELSE temps[n]]

\* the directory's temp files without name (unlink, or rename away)
Remove(name) == [n \in DOMAIN temps \ {name} |-> temps[n]]

\* the strict prefixes of a text a write can have reached when it stops
Prefixes(text) == {SubSeq(text, 1, k) : k \in {Len(text) \div 2, Len(text) - 1}}

\* mutant of Write: the text goes straight to the record file
Write_in_place(s, text) ==
    [store |-> PutText(saver[s].job_id, text), temps |-> temps]

\* f.write(...) on the descriptor of the temp file: the files afterwards
Write(s, text) ==
    [store |-> store,
     temps |-> IF saver[s].temp \in DOMAIN temps
               THEN [temps EXCEPT ![saver[s].temp].text = text]
               ELSE temps]

\* mutant of Cleanup: the temp file is left behind
Cleanup_none(s) == temps

\* except Exception: if os.path.exists(temp_path): os.unlink(temp_path)
Cleanup(s) ==
    IF saver[s].temp \in DOMAIN temps THEN Remove(saver[s].temp) ELSE temps

InSave == {"opened", "writing", "written"}

\* save(job): updated_at stamped, mkstemp creates the temp file
SaveBegin(s, job_id, job) ==
    /\ saver[s].pc \in {"idle", "done", "raised"}
    /\ \E name \in mkstemp(job_id) :
         /\ temps' = CreateTemp(name, s)
         /\ saver' = [saver EXCEPT ![s] =
               [pc |-> "opened", job_id |-> job_id, job |-> Stamp(job),
                temp |-> name]]
    /\ UNCHANGED <<store, committed, task, now, reply, seo, pcall, running_tasks, requests>>

\* f.write: a first part of the text reaches the file
SaveWriteChunk(s) ==
    /\ saver[s].pc = "opened"
    /\ \E part \in Prefixes(model_dump_json(saver[s].job)) :
         LET fs == Write(s, part)
         IN store' = fs.store /\ temps' = fs.temps
    /\ saver' = [saver EXCEPT ![s].pc = "writing"]
    /\ UNCHANGED <<committed, task, now, reply, seo, pcall, running_tasks, requests>>

\* f.write completes and the with block closes the file
SaveWriteRest(s) ==
    /\ saver[s].pc = "writing"
    /\ LET fs == Write(s, model_dump_json(saver[s].job))
       IN store' = fs.store /\ temps' = fs.temps
    /\ saver' = [saver EXCEPT ![s].pc = "written"]
    /\ UNCHANGED <<committed, task, now, reply, seo, pcall, running_tasks, requests>>

\* os.rename(temp_path, job_path) succeeds; save returns
SaveRename(s) ==
    /\ saver[s].pc = "written"
    /\ saver[s].temp \in DOMAIN temps
    /\ store' = PutText(saver[s].job_id, temps[saver[s].temp].text)
    /\ temps' = Remove(saver[s].temp)
    /\ committed' = [k \in DOMAIN committed \cup {saver[s].job_id} |->
                        IF k = saver[s].job_id THEN saver[s].job
                        ELSE committed[k]]
    /\ saver' = [saver EXCEPT ![s].pc = "done", ![s].temp = NoTemp]
    /\ UNCHANGED <<task, now, reply, seo, pcall, running_tasks, requests>>

\* the write or the rename raises: the except block cleans up and re-raises
SaveFails(s) ==
    /\ saver[s].pc \in InSave
    /\ temps' = Cleanup(s)
    /\ saver' = [saver EXCEPT ![s].pc = "raised", ![s].job = NullJob,
                               ![s].temp = NoTemp]
    /\ UNCHANGED <<store, committed, task, now, reply, seo, pcall, running_tasks, requests>>

\* the process dies inside save: nothing is cleaned up
SaverCrash(s) ==
    /\ saver[s].pc \in InSave
    /\ saver' = [saver EXCEPT ![s].pc = "crashed", ![s].job = NullJob]
    /\ UNCHANGED <<store, temps, committed, task, now, reply, seo, pcall, running_tasks, requests>>

NextStore ==
    \/ \E s \in Savers, job_id \in StoreIds, job \in SavedJobs :
          SaveBegin(s, job_id, job)
    \/ \E s \in Savers : SaveWriteChunk(s)
    \/ \E s \in Savers : SaveWriteRest(s)
    \/ \E s \in Savers : SaveRename(s)
    \/ \E s \in Savers : SaveFails(s)
    \/ \E s \in Savers : SaverCrash(s)

SpecStore == Init /\ [][NextStore]_vars

----------------------------------------------------------------------------
(* app/persistence/job_store.py: create, get, list_jobs, get_resumable_jobs *)

\* the identifiers str(uuid.uuid4())[:8] can produce
CatalogIds == StoreIds

\* status=None: no filter
NoStatus == "none"

\* the limits callers pass to list_jobs (GET /jobs hands over any integer)
Limits == -1..(DefaultLimit + 1)

\* jobs.sort(key=created_at, reverse=True): the sort is stable over the order
\* glob yields, which is any order, so jobs created at the same time may come
\* out either way
SortedByCreated(loaded, ids) ==
    {seq \in [1..Cardinality(ids) -> ids] :
        /\ \A i, j \in 1..Cardinality(ids) : i # j => seq[i] # seq[j]
        /\ \A i, j \in 1..Cardinality(ids) :
              i < j => loaded[seq[i]].created_at >= loaded[seq[j]].created_at}

\* jobs[:limit], Python slicing: a negative limit counts from the end
Slice(seq, limit) ==
    LET n == Len(seq)
        stop == IF limit >= 0 THEN (IF limit < n THEN limit ELSE n)
                ELSE (IF n + limit > 0 THEN n + limit ELSE 0)
    IN [i \in 1..stop |-> seq[i]]

\* list_jobs(status, limit): the results it can return. Every "*.json" file
\* is loaded, one that does not load is skipped, the others are kept when
\* "status is None or job.status == status"
list_jobs(status, limit) ==
    LET loaded == [job_id \in DOMAIN store |-> get(job_id)]
        matching == {job_id \in DOMAIN store :
                        /\ loaded[job_id] # NullJob
                        /\ status = NoStatus \/ loaded[job_id].status = status}
    IN {Slice([i \in 1..Len(seq) |->
                  [job_id |-> seq[i], job |-> loaded[seq[i]]]], limit) :
            seq \in SortedByCreated(loaded, matching)}

\* get_resumable_jobs(): list_jobs(status) for running, then for failed, each
\* with the default limit
get_resumable_jobs ==
    {a \o b : a \in list_jobs("running", DefaultLimit),
              b \in list_jobs("failed", DefaultLimit)}

\* create(input): the identifier is drawn, not checked against the store;
\* Job at pending/created; save
CreateJob(job_id) ==
    /\ \E ok \in BOOLEAN :
         IF ok
         THEN /\ store' = Put(job_id, Stamp(Job))
              /\ reply' = [NoReply EXCEPT !.op = "create", !.job_id = job_id,
                                          !.job = Stamp(Job),
                                          !.fresh = ~exists(job_id)]
         ELSE /\ store' = store
              /\ reply' = NoReply
    /\ UNCHANGED <<task, now, savevars, seo, pcall, running_tasks, requests>>

\* a caller sets the status of a stored job and saves it
SaveStatus(job_id, status) ==
    /\ get(job_id) # NullJob
    /\ store' = Put(job_id, Stamp([get(job_id) EXCEPT !.status = status]))
    /\ reply' = NoReply
    /\ UNCHANGED <<task, now, savevars, seo, pcall, running_tasks, requests>>

\* a record file is damaged from outside the program: it is left empty
Corrupt(job_id) ==
    /\ exists(job_id)
    /\ ParseOk(store[job_id])
    /\ store' = PutText(job_id, <<>>)
    /\ reply' = NoReply
    /\ UNCHANGED <<task, now, savevars, seo, pcall, running_tasks, requests>>

\* get(job_id), for any identifier. The reading calls change nothing in the
\* store, so one answer is looked at at a time: a read is taken where no
\* earlier answer is pending
Get(job_id) ==
    /\ reply = NoReply
    /\ reply' = [NoReply EXCEPT !.op = "get", !.job_id = job_id,
                                !.job = get(job_id)]
    /\ UNCHANGED <<store, task, now, savevars, seo, pcall, running_tasks, requests>>

\* list_jobs(status, limit)
ListJobs(status, limit) ==
    /\ reply = NoReply
    /\ \E jobs \in list_jobs(status, limit) :
         reply' = [NoReply EXCEPT !.op = "list", !.status = status,
                                  !.limit = limit, !.jobs = jobs]
    /\ UNCHANGED <<store, task, now, savevars, seo, pcall, running_tasks, requests>>

\* get_resumable_jobs()
GetResumableJobs ==
    /\ reply = NoReply
    /\ \E jobs \in get_resumable_jobs :
         reply' = [NoReply EXCEPT !.op = "resumable", !.jobs = jobs]
    /\ UNCHANGED <<store, task, now, savevars, seo, pcall, running_tasks, requests>>

NextCatalog ==
    \/ Tick
    \/ \E job_id \in CatalogIds : CreateJob(job_id)
    \/ \E job_id \in CatalogIds, status \in JobStatus \ {"pending"} :
          SaveStatus(job_id, status)
    \/ \E job_id \in CatalogIds : Corrupt(job_id)
    \/ \E job_id \in CatalogIds : Get(job_id)
    \/ \E status \in JobStatus \cup {NoStatus}, limit \in Limits :
          ListJobs(status, limit)
    \/ GetResumableJobs
    \/ \E t \in Tasks, job_id \in CatalogIds : ResumeNotFound(t, job_id)

SpecCatalog == Init /\ [][NextCatalog]_vars

----------------------------------------------------------------------------
(* app/pipeline/steps/seo_validation.py: execute *)

SeoDone == {"idle", "returned", "raised"}
SeoAwaiting == {"revising", "packaging"}

\* execute(draft_article, ...): article = draft_article, revision_count = 0
Execute(draft_article) ==
    /\ seo.pc \in SeoDone
    /\ seo' = [IdleSeo EXCEPT !.pc = "loop", !.article = draft_article]
    /\ UNCHANGED <<store, task, now, savevars, reply, pcall, running_tasks, requests>>

\* mutant of LoopValidate: the loop condition lets one more turn through
LoopValidate_one_more ==
    /\ seo.pc = "loop"
    /\ seo.revision_count <= MAX_REVISIONS
    /\ LET validation == validate_article(seo.article)
       IN seo' = IF validation.passed
                 THEN [seo EXCEPT !.pc = "final",
                                  !.validation = validation,
                                  !.validated = seo.article]
                 ELSE [seo EXCEPT !.pc = "revising",
                                  !.validation = validation,
                                  !.validated = seo.article,
                                  !.revision_count = @ + 1,
                                  !.revisions = @ + 1]
    /\ UNCHANGED <<store, task, now, savevars, reply, pcall, running_tasks, requests>>

\* one turn of "while revision_count < MAX_REVISIONS": validate; break when
\* passed, otherwise count the revision and await _revise_article
LoopValidate ==
    /\ seo.pc = "loop"
    /\ seo.revision_count < MAX_REVISIONS
    /\ LET validation == validate_article(seo.article)
       IN seo' = IF validation.passed
                 THEN [seo EXCEPT !.pc = "final",
                                  !.validation = validation,
                                  !.validated = seo.article]
                 ELSE [seo EXCEPT !.pc = "revising",
                                  !.validation = validation,
                                  !.validated = seo.article,
                                  !.revision_count = @ + 1,
                                  !.revisions = @ + 1]
    /\ UNCHANGED <<store, task, now, savevars, reply, pcall, running_tasks, requests>>

\* the while condition is false: the loop is left without a break
LoopEnds ==
    /\ seo.pc = "loop"
    /\ ~(seo.revision_count < MAX_REVISIONS)
    /\ seo' = [seo EXCEPT !.pc = "final"]
    /\ UNCHANGED <<store, task, now, savevars, reply, pcall, running_tasks, requests>>

\* article = await self._revise_article(...): any text the provider returns
ReviseReturns(revised) ==
    /\ seo.pc = "revising"
    /\ seo' = [seo EXCEPT !.pc = "loop", !.article = revised]
    /\ UNCHANGED <<store, task, now, savevars, reply, pcall, running_tasks, requests>>

\* the provider raises inside _revise_article: execute raises
ReviseRaises ==
    /\ seo.pc = "revising"
    /\ seo' = [seo EXCEPT !.pc = "raised"]
    /\ UNCHANGED <<store, task, now, savevars, reply, pcall, running_tasks, requests>>

\* the final validation, then the first packaging call is awaited
FinalValidation ==
    /\ seo.pc = "final"
    /\ seo' = [seo EXCEPT !.pc = "packaging",
                          !.validation = validate_article(seo.article),
                          !.validated = seo.article,
                          !.awaiting = 1]
    /\ UNCHANGED <<store, task, now, savevars, reply, pcall, running_tasks, requests>>

\* GeneratedArticle(article_markdown=article, ..., seo_validation=validation)
GeneratedArticle(article, validation) ==
    [article_markdown |-> article, seo_validation |-> validation]

\* a packaging call returns: the next one is awaited, or the package is
\* returned
PackagingReturns ==
    /\ seo.pc = "packaging"
    /\ seo' = IF seo.awaiting < Len(PackagingCalls)
              THEN [seo EXCEPT !.awaiting = @ + 1]
              ELSE [seo EXCEPT !.pc = "returned", !.awaiting = 0,
                               !.result = GeneratedArticle(seo.article,
                                                           seo.validation)]
    /\ UNCHANGED <<store, task, now, savevars, reply, pcall, running_tasks, requests>>

\* the provider raises inside a packaging call: execute raises
PackagingRaises ==
    /\ seo.pc = "packaging"
    /\ seo' = [seo EXCEPT !.pc = "raised"]
    /\ UNCHANGED <<store, task, now, savevars, reply, pcall, running_tasks, requests>>

\* the steps execute takes when no provider call raises
SeoProgress ==
    \/ LoopValidate
    \/ LoopEnds
    \/ \E revised \in Articles : ReviseReturns(revised)
    \/ FinalValidation
    \/ PackagingReturns

NextSeo ==
    \/ \E draft_article \in Articles : Execute(draft_article)
    \/ LoopValidate
    \/ LoopEnds
    \/ \E revised \in Articles : ReviseReturns(revised)
    \/ ReviseRaises
    \/ FinalValidation
    \/ PackagingReturns
    \/ PackagingRaises

SpecSeo == Init /\ [][NextSeo]_vars

\* the event loop runs the coroutine on, and every awaited provider call
\* comes back, returning or raising
SpecSeoLive == SpecSeo /\ WF_vars(SeoProgress)

----------------------------------------------------------------------------
(* Provider calls under the retry decorator *)

CallDone == {"idle", "returned", "raised"}

\* search(query) / generate(prompt): the first attempt starts
ProviderCall(provider) ==
    /\ pcall.pc \in CallDone
    /\ pcall' = [IdleCall EXCEPT !.pc = "attempting", !.provider = provider,
                                !.attempt_number = 1]
    /\ UNCHANGED <<store, task, now, savevars, reply, seo, running_tasks, requests>>

\* the attempt returns a result: the call returns it
AttemptReturns ==
    /\ pcall.pc = "attempting"
    /\ pcall' = [pcall EXCEPT !.pc = "returned"]
    /\ UNCHANGED <<store, task, now, savevars, reply, seo, running_tasks, requests>>

\* the attempt raises: retried after a wait, unless the retry condition
\* says no or the stop condition is met; then the error is re-raised
\* (reraise=True)
AttemptRaises(error) ==
    /\ pcall.pc = "attempting"
    /\ error \in ProviderErrors(pcall.provider)
    /\ pcall' = IF retry_if_exception_type(error) /\ ~should_stop(pcall.attempt_number)
               THEN [pcall EXCEPT !.pc = "waiting",
                                 !.failed = Append(@, error)]
               ELSE [pcall EXCEPT !.pc = "raised",
                                 !.failed = Append(@, error),
                                 !.error = error]
    /\ UNCHANGED <<store, task, now, savevars, reply, seo, running_tasks, requests>>

\* wait_exponential(...) is over: the next attempt starts
WaitEnds ==
    /\ pcall.pc = "waiting"
    /\ pcall' = [pcall EXCEPT !.pc = "attempting", !.attempt_number = @ + 1]
    /\ UNCHANGED <<store, task, now, savevars, reply, seo, running_tasks, requests>>

NextProvider ==
    \/ \E provider \in Providers : ProviderCall(provider)
    \/ AttemptReturns
    \/ \E provider \in Providers :
          \E error \in ProviderErrors(provider) : AttemptRaises(error)
    \/ WaitEnds

SpecProvider == Init /\ [][NextProvider]_vars

----------------------------------------------------------------------------
(* app/api/routes.py: create_job, resume_job and the background task
   _run_pipeline. A request handler runs to its end without suspending once
   the request is read; the task it creates starts later, when the event
   loop gets to it, and other requests can be handled in between. *)

\* a background task that has been created or is running its pipeline
Active == {"scheduled"} \cup InFlight

\* _running_tasks[job_id] = task
Register(job_id, t) ==
    [j \in DOMAIN running_tasks \cup {job_id} |->
        IF j = job_id THEN t ELSE running_tasks[j]]

\* _running_tasks.pop(job_id, None)
Pop(job_id) ==
    [j \in DOMAIN running_tasks \ {job_id} |-> running_tasks[j]]

\* asyncio.create_task(_run_pipeline(job_id)); _running_tasks[job_id] = task
CreateTask(t, job_id, op) ==
    /\ requests < MaxRequests
    /\ requests' = requests + 1
    /\ task[t].pc \in Finished
    /\ t = "t1" \/ task["t1"].pc \notin Finished   \* the first free slot
    /\ task' = [task EXCEPT ![t] =
          [IdleTask EXCEPT !.pc = "scheduled", !.op = op,
                           !.job_id = job_id]]
    /\ running_tasks' = Register(job_id, t)

\* POST /jobs: create the job (under a fresh identifier), start its task
create_job(t, job_id) ==
    /\ ~exists(job_id)
    /\ store' = Put(job_id, Stamp(Job))
    /\ CreateTask(t, job_id, "create_job")
    /\ UNCHANGED <<now, savevars, reply, seo, pcall>>

\* POST /jobs/{job_id}/resume gets past its checks (404 for no job, 400 for
\* completed, 400 for running, 400 for any status but failed and pending)
\* and starts a task; a refused request changes nothing
resume_job(t, job_id) ==
    /\ LET job == get(job_id)
       IN /\ job # NullJob
          /\ job.status # "completed"
          /\ job.status # "running"
          /\ job.status \in {"failed", "pending"}
    /\ CreateTask(t, job_id, "resume_job")
    /\ UNCHANGED <<store, now, savevars, reply, seo, pcall>>

\* _run_pipeline(job_id) starts: the job is loaded; without a job the task
\* returns (before the try block: nothing is popped); otherwise run(job)
run_pipeline(t) ==
    /\ task[t].pc = "scheduled"
    /\ LET job == get(task[t].job_id)
       IN IF job = NullJob
          THEN /\ task' = [task EXCEPT ![t] = IdleTask]
               /\ store' = store
          ELSE EnterRun(t, task[t].job_id, job, task[t].op, job)
    /\ UNCHANGED <<now, savevars, reply, seo, pcall, running_tasks, requests>>

\* run(job) has returned or raised: the finally block pops the registry
\* entry of the job and the task is over
run_pipeline_finally(t) ==
    /\ task[t].pc \in {"returned", "raised"}
    /\ task[t].op \in {"create_job", "resume_job"}
    /\ task' = [task EXCEPT ![t] = IdleTask]
    /\ running_tasks' = Pop(task[t].job_id)
    /\ UNCHANGED <<store, now, savevars, reply, seo, pcall, requests>>

\* the server process dies: its tasks and the registry are gone, the store
\* keeps the last committed records
ServerCrash ==
    /\ \E t \in HttpTasks : task[t].pc \in Active
    /\ task' = [t \in HttpTasks |-> IdleTask]
    /\ running_tasks' = <<>>
    /\ UNCHANGED <<store, now, savevars, reply, seo, pcall, requests>>

NextHttp ==
    \/ \E t \in HttpTasks, job_id \in JobIds : create_job(t, job_id)
    \/ \E t \in HttpTasks, job_id \in JobIds : resume_job(t, job_id)
    \/ \E t \in HttpTasks : run_pipeline(t)
    \/ \E t \in HttpTasks : run_pipeline_finally(t)
    \/ \E t \in HttpTasks : ReturnFromRun(t)
    \/ \E t \in HttpTasks : BeginStep(t)
    \/ \E t \in HttpTasks : PreconditionFails(t)
    \/ \E t \in HttpTasks : CompleteStep(t)
    \/ \E t \in HttpTasks : HandlerReturns(t)
    \/ \E t \in HttpTasks : HandlerRaises(t)
    \/ ServerCrash

SpecHttp == Init /\ [][NextHttp]_vars

----------------------------------------------------------------------------
(* app/persistence/job_store.py: delete, next to running orchestrations *)

\* mutant of Unlink: the record file is emptied, not removed
Unlink_truncate(job_id) ==
    [j \in DOMAIN store |-> IF j = job_id THEN <<>> ELSE store[j]]

\* job_path.unlink()
Unlink(job_id) == [j \in DOMAIN store \ {job_id} |-> store[j]]

\* delete(job_id): unlink the record file if it exists; True if it did
Delete(job_id) ==
    /\ store' = IF exists(job_id) THEN Unlink(job_id) ELSE store
    /\ reply' = [NoReply EXCEPT !.op = "delete", !.job_id = job_id,
                                !.fresh = ~exists(job_id),
                                !.result = exists(job_id)]
    /\ UNCHANGED <<task, now, savevars, seo, pcall, running_tasks, requests>>

NextDelete ==
    \/ Tick
    \/ \E job_id \in JobIds : CreateJob(job_id)
    \/ \E job_id \in JobIds : Delete(job_id)
    \/ \E t \in Tasks, job_id \in JobIds : Run(t, job_id)
    \/ \E t \in Tasks, job_id \in JobIds : ResumeNotFound(t, job_id)
    \/ \E t \in Tasks, job_id \in JobIds : ResumeCompleted(t, job_id)
    \/ \E t \in Tasks, job_id \in JobIds : ResumeInvalidState(t, job_id)
    \/ \E t \in Tasks, job_id \in JobIds : ResumeRun(t, job_id)
    \/ \E t \in Tasks : ReturnFromRun(t)
    \/ \E t \in Tasks : BeginStep(t)
    \/ \E t \in Tasks : PreconditionFails(t)
    \/ \E t \in Tasks : CompleteStep(t)
    \/ \E t \in Tasks : HandlerReturns(t)
    \/ \E t \in Tasks : HandlerRaises(t)

SpecDelete == Init /\ [][NextDelete]_vars

----------------------------------------------------------------------------
(* Properties *)

\* the steps that produce an artifact
ArtifactSteps == {STEP_ORDER[k] : k \in 2..6}

\* the artifact of `step` is present in `job`
Present(job, step) == job.artifacts[ArtifactField(step)] # None

\* the artifacts present are exactly those of the steps up to current_step
ArtifactsMatchStep(job) ==
    \A step \in ArtifactSteps :
        Present(job, step) <=> StepIndex(step) <= StepIndex(job.current_step)

\* the step after `step` in the fixed order
Successor(step) == STEP_ORDER[StepIndex(step) + 1]

\* C1: artifact/step atomicity. In every persisted record current_step is
\* the highest step whose artifact is present: the artifact of a step is in
\* the record exactly when current_step has reached that step ("created"
\* with no artifact, "completed" only with all five).
C1_ArtifactStepAtomicity ==
    \A job_id \in DOMAIN store : ArtifactsMatchStep(get(job_id))

\* C1 witness: a failed record stopped in the middle of the pipeline, with
\* the artifacts of its first three steps and no others
C1_Witness ==
    \E job_id \in DOMAIN store :
        /\ get(job_id).status = "failed"
        /\ get(job_id).current_step = "outline_generation"
        /\ Present(get(job_id), "outline_generation")
        /\ ~Present(get(job_id), "article_generation")

\* C2: a run of a freshly created job (pending/created) that returns, every
\* step invocation having succeeded, returns the job with status completed,
\* current_step completed, completed_at set and a final artifact, and the
\* record in the store is that same job.
C2_FreshRunCompletes ==
    \A t \in Tasks :
        (/\ task[t].op = "run"
         /\ task[t].pc = "returned"
         /\ task[t].start.status = "pending"
         /\ task[t].start.current_step = "created")
        => /\ task[t].job.status = "completed"
           /\ task[t].job.current_step = "completed"
           /\ task[t].job.completed_at # None
           /\ task[t].job.artifacts.final_article # None
           /\ task[t].invoked = SubSeq(STEP_ORDER, 2, 6)
           /\ get(task[t].job_id) = task[t].job

\* C2 witness: a run of a fresh job has returned
C2_Witness ==
    \E t \in Tasks :
        /\ task[t].op = "run"
        /\ task[t].pc = "returned"
        /\ task[t].start.status = "pending"
        /\ task[t].start.current_step = "created"
        /\ task[t].job.status = "completed"

\* a step in which the _execute_step call of task t raises (the handler, or
\* the upstream-artifact check before it) and the except block's save commits
ExecuteStepFails(t) ==
    /\ task[t].pc \in InFlight
    /\ task'[t].pc = "raised"
    /\ task'[t].failed_at # "none"
    /\ task'[t].fail_saved

C4_ErrorNamesFailingStep ==
    \A t \in Tasks :
        (task[t].pc = "raised" /\ task[t].failed_at # "none")
        => /\ task[t].job.error.step = task[t].failed_at
           /\ Successor(task[t].job.current_step) = task[t].failed_at

\* C5: a resume of a failed job invokes no handler of a step at or before
\* the persisted current_step, and the artifacts of the steps checkpointed
\* before the resume stay what they were, in the job and in the store.
C5_ResumeRedoesNothing ==
    \A t \in Tasks :
        (task[t].op = "resume" /\ task[t].start.status = "failed")
        => /\ \A k \in 1..Len(task[t].invoked) :
                StepIndex(task[t].invoked[k])
                    > StepIndex(task[t].start.current_step)
           /\ \A step \in ArtifactSteps :
                StepIndex(step) <= StepIndex(task[t].start.current_step)
                => /\ task[t].job.artifacts[ArtifactField(step)]
                        = task[t].start.artifacts[ArtifactField(step)]
                   /\ get(task[t].job_id).artifacts[ArtifactField(step)]
                        = task[t].start.artifacts[ArtifactField(step)]

\* C5 witness: a resume of a job that failed after two checkpoints has run
\* the remaining handlers and returned
C5_Witness ==
    \E t \in Tasks :
        /\ task[t].op = "resume"
        /\ task[t].start.status = "failed"
        /\ task[t].start.current_step = "theme_extraction"
        /\ task[t].pc = "returned"
        /\ task[t].invoked = SubSeq(STEP_ORDER, 4, 6)

\* C6 (as claimed): a resume of a failed or running job, at whatever
\* current_step it was left, that returns (every remaining step invocation
\* and every save having succeeded) returns the job completed.
C6_ResumeEndsCompleted ==
    \A t \in Tasks :
        (/\ task[t].op = "resume"
         /\ task[t].start.status \in {"failed", "running"}
         /\ task[t].pc = "returned")
        => /\ task[t].job.status = "completed"
           /\ task[t].job.current_step = "completed"
           /\ get(task[t].job_id).status = "completed"

\* C7: resume on a pending job raises the invalid-state error, invokes no
\* handler, saves nothing and leaves the record in the store as it was.
C7_ResumePendingRejected ==
    \A t \in Tasks :
        (task[t].op = "resume" /\ task[t].start.status = "pending")
        => /\ task[t].pc = "raised"
           /\ task[t].exc = "cannot be resumed"
           /\ task[t].invoked = <<>>
           /\ task[t].nsaves = 0
           /\ get(task[t].job_id) = task[t].start

\* C7 witness: a resume of a pending job has been rejected
C7_Witness ==
    \E t \in Tasks :
        /\ task[t].op = "resume"
        /\ task[t].start.status = "pending"
        /\ task[t].pc = "raised"
        /\ task[t].exc = "cannot be resumed"

\* the first step a call attempted, if it attempted one
FirstAttempted(t) ==
    IF task[t].invoked # <<>> THEN task[t].invoked[1] ELSE task[t].failed_at

\* C8, the state of a call: a resume of a failed or running job works on a
\* job whose retry_count is one more than the persisted one, persists it
\* with the error cleared before any step, and the first step it attempts is
\* the successor of the persisted current_step; run leaves retry_count alone.
C8_ResumeCallState ==
    \A t \in Tasks :
        /\ (task[t].op = "resume"
            /\ task[t].start.status \in {"failed", "running"})
           => /\ task[t].job.retry_count = task[t].start.retry_count + 1
              /\ task[t].pc \in InFlight
                 => /\ task[t].job.error = NoError
                    /\ get(task[t].job_id).error = NoError
                    /\ get(task[t].job_id).retry_count
                         = task[t].start.retry_count + 1
              /\ FirstAttempted(t) # "none"
                 => FirstAttempted(t) = Successor(task[t].start.current_step)
        /\ task[t].op = "run"
           => task[t].job.retry_count = task[t].start.retry_count

\* C8, the steps: the persisted retry_count changes only in the step that
\* starts a resume, and then by exactly one.
C8_RetryCountStep ==
    \A job_id \in DOMAIN store :
        get(job_id)'.retry_count # get(job_id).retry_count
        => /\ get(job_id)'.retry_count = get(job_id).retry_count + 1
           /\ \E t \in Tasks :
                /\ task[t].pc \in Finished
                /\ task'[t].op = "resume"
                /\ task'[t].job_id = job_id
                /\ task'[t].pc = "loop"

\* C8: resume on a failed or running job clears the JobError, increments
\* retry_count by exactly one and runs the pipeline from the successor of
\* the persisted current_step; nothing else changes retry_count.
C8_ResumeResetsAndCounts ==
    []C8_ResumeCallState /\ [][C8_RetryCountStep]_vars

\* C8 witness: a resume of a job that failed with an error is in the first
\* handler after its checkpoint, the record saved with no error and one retry
C8_Witness ==
    \E t \in Tasks :
        /\ task[t].op = "resume"
        /\ task[t].start.status = "failed"
        /\ task[t].start.error # NoError
        /\ task[t].start.retry_count = 0
        /\ task[t].pc = "in_handler"
        /\ task[t].invoked = <<Successor(task[t].start.current_step)>>
        /\ get(task[t].job_id).retry_count = 1
        /\ get(task[t].job_id).error = NoError

\* C9: resume on a completed job returns the stored job as it is: no handler
\* is invoked, nothing is saved, and the record in the store (status,
\* current_step, artifacts, retry_count, updated_at) is what it was.
C9_ResumeCompletedUnchanged ==
    \A t \in Tasks :
        (task[t].op = "resume" /\ task[t].start.status = "completed")
        => /\ task[t].pc = "returned"
           /\ task[t].job = task[t].start
           /\ task[t].invoked = <<>>
           /\ task[t].nsaves = 0
           /\ get(task[t].job_id) = task[t].start

\* C9 witness: a resume of a completed job has returned
C9_Witness ==
    \E t \in Tasks :
        /\ task[t].op = "resume"
        /\ task[t].start.status = "completed"
        /\ task[t].start.current_step = "completed"
        /\ task[t].pc = "returned"

\* C10 (as claimed): run on a completed job returns it with status,
\* current_step, completed_at and artifacts unchanged and leaves the
\* persisted status completed.
C10_RunOnCompletedIsNoOp ==
    \A t \in Tasks :
        (/\ task[t].op = "run"
         /\ task[t].start.status = "completed"
         /\ task[t].start.current_step = "completed"
         /\ task[t].pc = "returned")
        => /\ task[t].job.status = task[t].start.status
           /\ task[t].job.current_step = task[t].start.current_step
           /\ task[t].job.completed_at = task[t].start.completed_at
           /\ task[t].job.artifacts = task[t].start.artifacts
           /\ get(task[t].job_id).status = "completed"

\* a job satisfies "completed implies current_step completed, completed_at set"
CompletedIsFinal(job) ==
    job.status = "completed"
    => job.current_step = "completed" /\ job.completed_at # None

\* C11: in every persisted record and in every job returned by run or
\* resume, status completed implies that current_step is completed and that
\* completed_at is set.
C11_CompletedImpliesFinalStep ==
    /\ \A job_id \in DOMAIN store : CompletedIsFinal(get(job_id))
    /\ \A t \in Tasks :
         task[t].pc = "returned" => CompletedIsFinal(task[t].job)

\* C11 witness: a run has returned a completed job that is also the record
\* in the store
C11_Witness ==
    \E t \in Tasks :
        /\ task[t].pc = "returned"
        /\ task[t].job.status = "completed"
        /\ task[t].job.completed_at # None
        /\ get(task[t].job_id).status = "completed"

\* C12 (as claimed): a persisted record has a JobError only while its status
\* is failed, whatever run and resume calls were made on the job.
C12_ErrorOnlyWhileFailed ==
    \A job_id \in DOMAIN store :
        get(job_id).status # "failed" => get(job_id).error = NoError

\* C13: in every persisted record, status failed implies that a JobError is
\* present.
C13_FailedHasError ==
    \A job_id \in DOMAIN store :
        get(job_id).status = "failed" => get(job_id).error # NoError

\* C13 witness: the except block of a run has persisted a failed record
C13_Witness ==
    \E t \in Tasks :
        /\ task[t].pc = "raised"
        /\ task[t].fail_saved
        /\ get(task[t].job_id).status = "failed"
        /\ get(task[t].job_id).error.message = "ProviderError"

\* C14: run persists status running before the first handler: whenever a
\* step handler of a job is executing (and at every other point of the loop)
\* the record in the store has status running, so the record a crash leaves
\* behind reloads as running.
C14_RunningWhileInHandler ==
    \A t \in Tasks :
        task[t].pc \in InFlight
        => /\ exists(task[t].job_id)
           /\ get(task[t].job_id).status = "running"

\* C14 witness: the first handler of a job that was pending is executing
C14_Witness ==
    \E t \in Tasks :
        /\ task[t].pc = "in_handler"
        /\ task[t].start.status = "pending"
        /\ task[t].next_step = "serp_analysis"
        /\ get(task[t].job_id).status = "running"

\* C15: checkpoints are strictly ordered. While the handler of a step is
\* executing, the record in the store has current_step at the step just
\* before it and carries the artifacts of all steps up to that one; and no
\* persisted record carries a step's artifact without the artifact of the
\* step before.
C15_CheckpointsOrdered ==
    /\ \A t \in Tasks :
         task[t].pc = "in_handler"
         => LET rec == get(task[t].job_id)
            IN /\ Successor(rec.current_step) = task[t].next_step
               /\ \A step \in ArtifactSteps :
                    StepIndex(step) < StepIndex(task[t].next_step)
                        => Present(rec, step)
    /\ \A job_id \in DOMAIN store :
         \A k \in 3..6 :
            Present(get(job_id), STEP_ORDER[k])
                => Present(get(job_id), STEP_ORDER[k - 1])

\* C15 witness: the handler of article_generation is executing over the
\* checkpoint of outline_generation
C15_Witness ==
    \E t \in Tasks :
        /\ task[t].pc = "in_handler"
        /\ task[t].next_step = "article_generation"
        /\ get(task[t].job_id).current_step = "outline_generation"
        /\ Present(get(task[t].job_id), "outline_generation")

\* C16: the persisted current_step of a job never moves backward and never
\* skips a step: every step of the system leaves it where it was or moves
\* it to its successor in STEP_ORDER.
C16_StepMovesForwardByOne ==
    [][\A job_id \in DOMAIN store :
        \/ get(job_id)'.current_step = get(job_id).current_step
        \/ /\ get(job_id).current_step # "completed"
           /\ get(job_id)'.current_step
                = Successor(get(job_id).current_step)]_vars

\* C16 witness: a job has reached completed through a failure and a resume
C16_Witness ==
    \E job_id \in DOMAIN store :
        /\ get(job_id).current_step = "completed"
        /\ get(job_id).status = "completed"
        /\ get(job_id).retry_count = 1

----------------------------------------------------------------------------
(* Properties of save and get, checked under SpecStore *)

\* the job of the last save of job_id whose rename happened, None before
Committed(job_id) ==
    IF job_id \in DOMAIN committed THEN committed[job_id] ELSE NullJob

\* the temp files saver s created that are still in the directory
TempsOf(s) == {n \in DOMAIN temps : temps[n].owner = s}

\* C17: save is atomic for readers. At every point of every save, a failing
\* save and a crash in the middle of the write included, get(job_id) returns
\* the last committed record (the previous one until the rename, the complete
\* new one from the rename on), never a partial one; a record file that
\* exists always parses.
C17_SaveAtomicForReaders ==
    \A job_id \in StoreIds :
        /\ get(job_id) = Committed(job_id)
        /\ exists(job_id) => ParseOk(store[job_id])

\* a save of a job that differs from the committed one has written part of
\* its text, and another save of the same job has crashed or raised
C17_Witness ==
    \E s1, s2 \in Savers :
        /\ saver[s1].pc = "writing"
        /\ exists(saver[s1].job_id)
        /\ get(saver[s1].job_id) # saver[s1].job
        /\ temps[saver[s1].temp].text # <<>>
        /\ saver[s2].pc \in {"crashed", "raised"}
        /\ saver[s2].job_id = saver[s1].job_id

\* C18: once a save call has returned, normally or by raising, none of its
\* temp files is left; and the step on which a save returns normally leaves
\* the job's one record file equal to the job just saved.
C18_NoTempLeftAfterSave ==
    /\ [](\A s \in Savers : saver[s].pc \in {"done", "raised"}
                                => TempsOf(s) = {})
    /\ [][\A s \in Savers, job_id \in StoreIds :
            (saver[s].pc = "written" /\ saver'[s].pc = "done"
                /\ saver[s].job_id = job_id)
            => /\ get(job_id)' = saver[s].job
               /\ saver[s].temp \notin DOMAIN temps'
               /\ exists(job_id)']_vars

\* a second save of the same job has returned after a first one, the record
\* is the second job, and a save that raised has left no temp file
C18_Witness ==
    \E s1, s2 \in Savers :
        /\ s1 # s2
        /\ saver[s1].pc = "done"
        /\ saver[s2].pc = "raised"
        /\ saver[s1].job.retry_count = 1
        /\ get(saver[s1].job_id) = saver[s1].job
        /\ temps = <<>>

\* C19: saves for distinct job ids do not interfere. Whatever step a save
\* takes, the record files of all other job ids and the temp files of all
\* other saves stay as they are, and the save that returns leaves its job's
\* record equal to the job it was given.
C19_DistinctSavesIndependent ==
    [][\A s \in Savers :
        saver'[s] # saver[s]
        => /\ \A job_id \in StoreIds \ {saver'[s].job_id} :
                /\ exists(job_id)' = exists(job_id)
                /\ exists(job_id) => store'[job_id] = store[job_id]
           /\ \A n \in DOMAIN temps :
                temps[n].owner # s
                    => n \in DOMAIN temps' /\ temps'[n] = temps[n]
           /\ \A job_id \in StoreIds :
                (saver'[s].pc = "done" /\ saver'[s].job_id = job_id)
                    => get(job_id)' = saver'[s].job]_vars

\* two saves of different jobs for different job ids overlap: both have
\* written their temp file, neither has renamed it, and both ids already
\* have a record
C19_Witness ==
    \E s1, s2 \in Savers :
        /\ saver[s1].pc = "written"
        /\ saver[s2].pc = "written"
        /\ saver[s1].job_id # saver[s2].job_id
        /\ saver[s1].job # saver[s2].job
        /\ exists(saver[s1].job_id)
        /\ exists(saver[s2].job_id)

----------------------------------------------------------------------------
(* Round trip through the record file, checked under Spec *)

\* writing job and reading the text back gives job again
RoundTrip(job) ==
    LET text == model_dump_json(job)
    IN /\ ParseOk(text)
       /\ ValidJob(json_load(text))
       /\ model_validate(json_load(text)) = job

\* the call's last save returned and nothing was assigned to the job since
JustSaved(t) ==
    \/ task[t].pc \in InFlight
    \/ task[t].pc = "returned" /\ task[t].nsaves > 0
    \/ task[t].pc = "raised" /\ task[t].fail_saved

----------------------------------------------------------------------------
(* Properties of create, get and the listings, checked under SpecCatalog *)

\* the stored jobs a listing for status is about
StoredWith(status) ==
    {job_id \in DOMAIN store :
        /\ get(job_id) # NullJob
        /\ status = NoStatus \/ get(job_id).status = status}

\* the job ids of a listing
Listed == {reply.jobs[i].job_id : i \in 1..Len(reply.jobs)}

\* C21: create returns a job at pending/created under an identifier that no
\* record in the store had, so it never overwrites an existing job's record.
C21_CreateIdIsFresh ==
    reply.op = "create"
    => /\ reply.job.status = "pending"
       /\ reply.job.current_step = "created"
       /\ reply.fresh

\* C22: list_jobs(status, limit) returns the stored jobs with that status
\* (all of them for no status), newest first, cut to the first limit of
\* them: never more than limit jobs, whatever limit is passed (none at all
\* for a limit below 1).
C22_ListFilteredSortedTruncated ==
    reply.op = "list"
    => LET n == Len(reply.jobs)
           all == StoredWith(reply.status)
           most == IF reply.limit > 0 THEN reply.limit ELSE 0
       IN /\ n <= most
          /\ Listed \subseteq all
          /\ Cardinality(Listed) = n
          /\ n = most \/ Listed = all
          /\ \A i \in 1..n : reply.jobs[i].job = get(reply.jobs[i].job_id)
          /\ \A i, j \in 1..n :
                i < j => reply.jobs[i].job.created_at
                            >= reply.jobs[j].job.created_at
          /\ \A job_id \in all \ Listed, i \in 1..n :
                get(job_id).created_at <= reply.jobs[i].job.created_at

\* C23: get_resumable_jobs returns every stored job whose status is running
\* or failed, however many there are, and no pending or completed one.
C23_ResumableAreRunningOrFailed ==
    reply.op = "resumable"
    => Listed = StoredWith("running") \cup StoredWith("failed")

\* C24: get never raises; for an identifier with no record and for a record
\* that does not parse it returns absent. resume on such an identifier takes
\* the not-found exit only, and leaves the store as it is.
C24_GetAbsentResumeNotFound ==
    /\ [](/\ reply.op = "get"
             => (~exists(reply.job_id) \/ ~ParseOk(store[reply.job_id])
                    => reply.job = NullJob)
          /\ \A t \in Tasks, job_id \in CatalogIds :
                (~exists(job_id) \/ ~ParseOk(store[job_id]))
                => /\ ~ENABLED ResumeCompleted(t, job_id)
                   /\ ~ENABLED ResumeInvalidState(t, job_id)
                   /\ ~ENABLED ResumeRun(t, job_id)
                   /\ task[t].pc \in Finished
                        => ENABLED ResumeNotFound(t, job_id))
    /\ [][\A t \in Tasks :
            (task'[t] # task[t] /\ task'[t].op = "resume")
            => /\ task'[t].pc = "raised"
               /\ task'[t].exc = "not found"
               /\ store' = store]_vars

\* get has answered absent for a record file that exists but does not parse,
\* and a resume of that identifier has failed with not found
C24_Witness ==
    /\ reply.op = "get"
    /\ exists(reply.job_id)
    /\ ~ParseOk(store[reply.job_id])
    /\ reply.job = NullJob
    /\ \E t \in Tasks :
         /\ task[t].job_id = reply.job_id
         /\ task[t].exc = "not found"

----------------------------------------------------------------------------
(* Failures of a run *)

\* the handlers a call has invoked, as a set
Invoked(t) == {task[t].invoked[k] : k \in 1..Len(task[t].invoked)}

\* C25: no automatic retry. Within one call no handler is invoked twice;
\* a handler is invoked only from the loop of a call that has raised
\* nothing, so once a call has raised it invokes no further handler, and the
\* step that failed is attempted again only by a new call.
C25_NoAutomaticRetry ==
    /\ [](\A t \in Tasks :
            /\ Cardinality(Invoked(t)) = Len(task[t].invoked)
            /\ task[t].pc = "raised" /\ task[t].failed_at \in Invoked(t)
                 => task[t].invoked[Len(task[t].invoked)] = task[t].failed_at)
    /\ [][\A t \in Tasks :
            task'[t].invoked # task[t].invoked
            => \/ /\ task[t].pc \in Finished       \* a new call starts
                  /\ task'[t].invoked = <<>>
               \/ /\ task[t].pc = "loop"           \* one more handler
                  /\ task[t].exc = "none"
                  /\ task[t].failed_at = "none"
                  /\ Len(task'[t].invoked) = Len(task[t].invoked) + 1
                  /\ task'[t].invoked[Len(task'[t].invoked)]
                        \notin Invoked(t)
               \/ task'[t] = IdleTask]_vars         \* the process died

\* a resume has invoked two handlers and the second one raised: the call
\* ended there
C25_Witness ==
    \E t \in Tasks :
        /\ task[t].op = "resume"
        /\ task[t].pc = "raised"
        /\ task[t].exc = "ProviderError"
        /\ Len(task[t].invoked) = 2
        /\ task[t].failed_at = task[t].invoked[2]

\* C26: a step whose upstream artifact is missing fails before its handler
\* (and so any provider) is called, and that failure is final: a resume of a
\* job that failed this way does not attempt the step again.
C26_PreconditionFailureNotRetried ==
    \A t \in Tasks :
        /\ task[t].pc = "raised" /\ task[t].failed_at # "none"
             /\ ~PreconditionHolds(task[t].job, task[t].failed_at)
             => task[t].failed_at \notin Invoked(t)
        /\ (/\ task[t].op = "resume"
            /\ task[t].start.status = "failed"
            /\ task[t].start.error.message = "ValueError")
           => /\ task[t].failed_at # Successor(task[t].start.current_step)
              /\ Successor(task[t].start.current_step) \notin Invoked(t)

\* C27: whenever run raises to its caller, the record in the store is failed
\* and carries a JobError (the failure was persisted before the re-raise),
\* and the exception raised is the one the failing step raised.
C27_RaisePersistsFailure ==
    \A t \in Tasks :
        (/\ task[t].pc = "raised"
         /\ task[t].exc \notin {"not found", "cannot be resumed"})
        => /\ get(task[t].job_id).status = "failed"
           /\ get(task[t].job_id).error # NoError
           /\ task[t].failed_at # "none"
           /\ task[t].exc \in {"ProviderError", "ValueError"}

----------------------------------------------------------------------------
(* Progress observer *)

----------------------------------------------------------------------------
(* Properties of the SEO validation step, checked under SpecSeo and
   SpecSeoLive *)

\* C29: the revise-and-recheck loop is bounded. One execute call asks the
\* provider for at most MAX_REVISIONS revisions; execute raises only out of
\* a provider call, so when every provider call succeeds it comes to an
\* end and returns the final artifact, holding the last article and its
\* validation, also when that validation still fails.
C29_ReviseLoopBounded ==
    /\ [](/\ seo.revisions <= MAX_REVISIONS
          /\ seo.revisions = seo.revision_count
          /\ seo.pc = "returned"
               => /\ seo.result.article_markdown = seo.article
                  /\ seo.result.seo_validation = validate_article(seo.article)
                  /\ ~seo.result.seo_validation.passed
                        => seo.revisions = MAX_REVISIONS)
    /\ [][seo'.pc = "raised" => seo.pc \in SeoAwaiting]_vars
    /\ (seo.pc \notin SeoDone) ~> (seo.pc \in {"returned", "raised"})

\* execute has returned after MAX_REVISIONS revisions with an article that
\* still fails validation
C29_Witness ==
    /\ seo.pc = "returned"
    /\ seo.revisions = MAX_REVISIONS
    /\ ~seo.result.seo_validation.passed
    /\ seo.result.article_markdown = seo.article

\* the number of checks whose condition holds for an article
PassedCount(article) ==
    Cardinality({name \in DOMAIN article : article[name]})

\* C30: whatever the outcomes of the seven checks, the score is 100 times
\* the number of passed checks divided by the number of checks, within
\* 0..100, and the result is passed exactly when no check of severity error
\* failed and the score is at least 70.
C30_ScoreAndPassed ==
    DOMAIN seo.validated # {}
    => LET result == seo.validation
           checks == result.checks
           score == result.score
       IN /\ Len(checks) = 7
          /\ \A i \in 1..Len(checks) :
                /\ checks[i].name = CheckNames[i]
                /\ checks[i].passed = seo.validated[checks[i].name]
          /\ score.den > 0
          /\ score.num * Len(checks)
                = 100 * PassedCount(seo.validated) * score.den
          /\ 0 <= score.num /\ score.num <= 100 * score.den
          /\ result.passed
                <=> /\ ~\E i \in 1..Len(checks) :
                          ~checks[i].passed /\ checks[i].severity = "error"
                    /\ score.num >= 70 * score.den

\* an article that misses two checks of severity warning has been
\* validated: five of seven passed, score 500/7, result passed
C30_Witness ==
    /\ DOMAIN seo.validated # {}
    /\ PassedCount(seo.validated) = 5
    /\ ~seo.validated["word_count"]
    /\ ~seo.validated["keyword_density"]
    /\ seo.validation.passed
    /\ seo.validation.score = Quotient(500, 7)

----------------------------------------------------------------------------
(* Properties of the provider calls, checked under SpecProvider *)

\* C31: a provider call makes at most three attempts. After the third failed
\* attempt in a row it stops and raises the last error to the step; an
\* attempt that succeeds ends the call at once.
C31_AtMostThreeAttempts ==
    /\ [](/\ pcall.attempt_number <= 3
          /\ Len(pcall.failed) <= 3
          /\ Len(pcall.failed) = 3
               => /\ pcall.pc = "raised"
                  /\ pcall.error = pcall.failed[3]
          /\ pcall.pc = "raised"
               => pcall.error = pcall.failed[Len(pcall.failed)]
          /\ pcall.pc = "returned"
               => pcall.attempt_number = Len(pcall.failed) + 1)
    /\ [][pcall.pc = "attempting" /\ pcall'.failed = pcall.failed
            => pcall'.pc = "returned"]_vars

\* a call has failed three times and raised the error of its third attempt
C31_Witness ==
    /\ pcall.pc = "raised"
    /\ pcall.attempt_number = 3
    /\ Len(pcall.failed) = 3
    /\ pcall.failed[1] # pcall.failed[3]
    /\ pcall.error = pcall.failed[3]

\* C32: only transient failures are retried. An error tagged non-retryable
\* (invalid API key) is raised to the step after that single attempt; the
\* provider makes no further attempt after it.
C32_NonRetryableNotRetried ==
    \A k \in 1..Len(pcall.failed) :
        ~pcall.failed[k].retryable
        => /\ k = Len(pcall.failed)
           /\ pcall.pc = "raised"
           /\ pcall.error = pcall.failed[k]

----------------------------------------------------------------------------
(* Properties of the stored record during and after a run, checked under
   Spec *)

\* C35: GET /jobs/{job_id} hands out the record's final artifact as the
\* article, so the result carries an article only for a completed job if,
\* at every moment of a run and after any failure, a stored record whose
\* final artifact is present has status completed.
C35_ArticleOnlyWhenCompleted ==
    \A job_id \in DOMAIN store :
        LET job == get(job_id)
        IN job # NullJob /\ job.artifacts.final_article # None
           => job.status = "completed"

\* C39: every checkpoint leaves the job able to go on. Whatever the handlers
\* returned, a stored record checkpointed at step N satisfies the
\* upstream-artifact check of step N+1.
C39_CheckpointEnablesNextStep ==
    \A job_id \in DOMAIN store :
        LET job == get(job_id)
        IN job # NullJob /\ job.current_step # "completed"
           => PreconditionHolds(job, Successor(job.current_step))

----------------------------------------------------------------------------
(* Properties of the HTTP surface, checked under SpecHttp *)

\* the tasks created or running for a job
ActiveTasks(job_id) ==
    {t \in HttpTasks : task[t].job_id = job_id /\ task[t].pc \in Active}

\* some request handler can start a resume task for the job
ResumeAccepted(job_id) == \E t \in HttpTasks : resume_job(t, job_id)

\* C33: resuming a failed job through the HTTP resume endpoint does to the
\* record what Orchestrator.resume does: the JobError is cleared, retry_count
\* is one more than before, and the pipeline goes on from the persisted
\* current_step.
C33_HttpResumeLikeResume ==
    \A t \in HttpTasks :
        (/\ task[t].op = "resume_job"
         /\ task[t].pc \in InFlight
         /\ task[t].start.status = "failed")
        => /\ task[t].job.error = NoError
           /\ task[t].job.retry_count = task[t].start.retry_count + 1
           /\ StepIndex(task[t].job.current_step)
                >= StepIndex(task[t].start.current_step)

\* C34: a job left at status running by a crash, with no task executing it,
\* can be resumed through the HTTP resume endpoint; a pending job that was
\* never started is refused, as Orchestrator.resume refuses it.
C34_HttpResumeOfInterrupted ==
    \A job_id \in JobIds :
        LET job == get(job_id)
        IN /\ (/\ job # NullJob
               /\ job.status = "running"
               /\ ActiveTasks(job_id) = {}
               /\ requests < MaxRequests)
              => ENABLED ResumeAccepted(job_id)
           /\ job # NullJob /\ job.status = "pending"
              => ~ENABLED ResumeAccepted(job_id)

\* C36: at most one pipeline task is active per job identifier, whatever the
\* interleaving of requests and tasks, and the registry references a job's
\* task for as long as it runs.
C36_OneTaskPerJob ==
    \A job_id \in JobIds :
        /\ Cardinality(ActiveTasks(job_id)) <= 1
        /\ \A t \in ActiveTasks(job_id) :
             /\ job_id \in DOMAIN running_tasks
             /\ running_tasks[job_id] = t

\* C37: with two orchestrations running on one job, each on its own copy,
\* every record that becomes visible is consistent (artifact/step
\* atomicity), the persisted current_step never moves backward, and a record
\* persisted as completed stays completed.
C37_ConcurrentRunsMonotone ==
    [][\A job_id \in JobIds :
         get(job_id)' # NullJob
         => /\ ArtifactsMatchStep(get(job_id)')
            /\ get(job_id) # NullJob
                 => /\ StepIndex(get(job_id)'.current_step)
                         >= StepIndex(get(job_id).current_step)
                    /\ get(job_id).status = "completed"
                         => get(job_id)'.status = "completed"]_vars

----------------------------------------------------------------------------
(* Properties of delete, checked under SpecDelete *)

\* C38: delete(job_id) returns true exactly when a record existed, and a
\* deleted job stays deleted: from a delete that returned true until the
\* next explicit create, exists(job_id) is false and get(job_id) is absent,
\* also while an orchestration of that job is in flight.
C38_DeletedStaysDeleted ==
    reply.op = "delete"
    => /\ reply.result <=> ~reply.fresh
       /\ reply.result
            => /\ ~exists(reply.job_id)
               /\ get(reply.job_id) = NullJob

====
